---------------------------- MODULE Spec2Model ----------------------------
(***************************************************************************)
(* Model of the task executor of the A2A text analysis agent               *)
(* (a2a_text_analysis_agent/agents/text_analysis_agent.py): the intent     *)
(* classifier, the query text extractor, A2ATextAnalysisAgent.execute and  *)
(* cancel, and the event sink they append to.                              *)
(*                                                                         *)
(* Python strings are sequences of one-character strings, so that          *)
(* str.lower, the substring test `in`, str.replace and str.strip are       *)
(* computed character by character.                                        *)
(***************************************************************************)
EXTENDS Integers, Sequences, FiniteSets, TLC

VARIABLES
    sink,            \* EventQueue.events: the events appended so far
    tasks,           \* the tasks new_task has created and announced
    nextId,          \* source of fresh task / context identifiers (uuid4)
    calls,           \* number of execute calls made so far
    pc,              \* per execute call: the await point it is at
    request,         \* per execute call: the RequestContext it was given
    task,            \* per execute call: local `task`
    task_type,       \* per execute call: local `task_type`
    text_to_analyze, \* per execute call: local `text_to_analyze`
    outcome,         \* per execute call: how the coroutine ended
    emitted,         \* per execute call: the events it appended, in order
    steps,           \* per execute call: the calls it made, in order
    caught,          \* per execute call: str(e) of the exception caught
    cancelCalls,     \* number of cancel calls made so far
    cancelOutcome,   \* how the last cancel call ended
    query,           \* input of the classifier / extractor under test
    phase,           \* "input" before the function under test ran
    intent,          \* value returned by _determine_task_type(query)
    extractions      \* values returned by _extract_text_from_query, pass by pass

vars == << sink, tasks, nextId, calls, pc, request, task, task_type, text_to_analyze,
           outcome, emitted, steps, caught, cancelCalls, cancelOutcome,
           query, phase, intent, extractions >>

execVars == << sink, tasks, nextId, calls, pc, request, task, task_type,
               text_to_analyze, outcome, emitted, steps, caught, cancelCalls,
               cancelOutcome >>

pureVars == << query, phase, intent, extractions >>

---------------------------------------------------------------------------
(* Bounds *)

MaxCalls == 2       \* execute calls in one behaviour
MaxCancels == 1     \* cancel calls in one behaviour
MaxPieces == 2      \* pieces concatenated into a query under test
MaxFragments == 3   \* fragments concatenated into a query to extract from

---------------------------------------------------------------------------
(* Python str primitives *)

UpperChars ==
    << "A", "B", "C", "D", "E", "F", "G", "H", "I", "J", "K", "L", "M",
       "N", "O", "P", "Q", "R", "S", "T", "U", "V", "W", "X", "Y", "Z" >>

LowerChars ==
    << "a", "b", "c", "d", "e", "f", "g", "h", "i", "j", "k", "l", "m",
       "n", "o", "p", "q", "r", "s", "t", "u", "v", "w", "x", "y", "z" >>

LowerChar(c) ==
    IF \E i \in 1..26 : UpperChars[i] = c
    THEN LowerChars[CHOOSE i \in 1..26 : UpperChars[i] = c]
    ELSE c

\* str.lower()
lower(s) == [i \in 1..Len(s) |-> LowerChar(s[i])]

\* `k in s` for strings
Contains(s, k) ==
    \E i \in 0..(Len(s) - Len(k)) : SubSeq(s, i + 1, i + Len(k)) = k

\* any(word in s for word in words)
AnyIn(words, s) == \E j \in 1..Len(words) : Contains(s, words[j])

IsSpace(c) == c \in {" ", "\t", "\n"}

RECURSIVE lstrip(_)
lstrip(s) ==
    IF s = << >> THEN s
    ELSE IF IsSpace(Head(s)) THEN lstrip(Tail(s)) ELSE s

RECURSIVE rstrip(_)
rstrip(s) ==
    IF s = << >> THEN s
    ELSE IF IsSpace(s[Len(s)]) THEN rstrip(SubSeq(s, 1, Len(s) - 1)) ELSE s

\* str.strip()
strip(s) == rstrip(lstrip(s))

\* s.replace(k, ''): leftmost non-overlapping occurrences, case-sensitive
RECURSIVE replace(_, _)
replace(s, k) ==
    IF Len(s) < Len(k) THEN s
    ELSE IF SubSeq(s, 1, Len(k)) = k
         THEN replace(SubSeq(s, Len(k) + 1, Len(s)), k)
         ELSE << Head(s) >> \o replace(Tail(s), k)

---------------------------------------------------------------------------
(* Intent classifier: A2ATextAnalysisAgent._determine_task_type *)

GrammarKeywords ==
    << <<"g", "r", "a", "m", "m", "a", "r">>,
       <<"c", "h", "e", "c", "k", " ", "g", "r", "a", "m", "m", "a", "r">>,
       <<"g", "r", "a", "m", "m", "a", "t", "i", "c", "a", "l">> >>

SummaryKeywords ==
    << <<"s", "u", "m", "m", "a", "r", "i", "z", "e">>,
       <<"s", "u", "m", "m", "a", "r", "y">>,
       <<"s", "u", "m", "m", "a", "r", "i", "z", "a", "t", "i", "o", "n">> >>

SentimentKeywords ==
    << <<"s", "e", "n", "t", "i", "m", "e", "n", "t">>,
       <<"e", "m", "o", "t", "i", "o", "n">>,
       <<"f", "e", "e", "l", "i", "n", "g">>,
       <<"m", "o", "o", "d">> >>

EntityKeywords ==
    << <<"e", "n", "t", "i", "t", "y">>,
       <<"e", "n", "t", "i", "t", "i", "e", "s">>,
       <<"e", "x", "t", "r", "a", "c", "t">>,
       <<"n", "a", "m", "e", "d">> >>

ParaphraseKeywords ==
    << <<"p", "a", "r", "a", "p", "h", "r", "a", "s", "e">>,
       <<"r", "e", "w", "r", "i", "t", "e">>,
       <<"r", "e", "p", "h", "r", "a", "s", "e">> >>

\* a chain whose final else returns a tag outside the five intents
determine_task_type_open(q) ==
    LET query_lower == lower(q) IN
    IF AnyIn(GrammarKeywords, query_lower) THEN "grammar_check"
    ELSE IF AnyIn(SummaryKeywords, query_lower) THEN "summarize"
    ELSE IF AnyIn(SentimentKeywords, query_lower) THEN "sentiment_analysis"
    ELSE IF AnyIn(EntityKeywords, query_lower) THEN "entity_extraction"
    ELSE IF AnyIn(ParaphraseKeywords, query_lower) THEN "paraphrase"
    ELSE "unknown"

\* a chain that tests the query as given, without query.lower()
determine_task_type_cased(q) ==
    IF AnyIn(GrammarKeywords, q) THEN "grammar_check"
    ELSE IF AnyIn(SummaryKeywords, q) THEN "summarize"
    ELSE IF AnyIn(SentimentKeywords, q) THEN "sentiment_analysis"
    ELSE IF AnyIn(EntityKeywords, q) THEN "entity_extraction"
    ELSE IF AnyIn(ParaphraseKeywords, q) THEN "paraphrase"
    ELSE "sentiment_analysis"

\* a chain that tests the keyword sets in another order
determine_task_type_swapped(q) ==
    LET query_lower == lower(q) IN
    IF AnyIn(SummaryKeywords, query_lower) THEN "summarize"
    ELSE IF AnyIn(GrammarKeywords, query_lower) THEN "grammar_check"
    ELSE IF AnyIn(SentimentKeywords, query_lower) THEN "sentiment_analysis"
    ELSE IF AnyIn(EntityKeywords, query_lower) THEN "entity_extraction"
    ELSE IF AnyIn(ParaphraseKeywords, query_lower) THEN "paraphrase"
    ELSE "sentiment_analysis"

determine_task_type(q) ==
    LET query_lower == lower(q) IN
    IF AnyIn(GrammarKeywords, query_lower) THEN "grammar_check"
    ELSE IF AnyIn(SummaryKeywords, query_lower) THEN "summarize"
    ELSE IF AnyIn(SentimentKeywords, query_lower) THEN "sentiment_analysis"
    ELSE IF AnyIn(EntityKeywords, query_lower) THEN "entity_extraction"
    ELSE IF AnyIn(ParaphraseKeywords, query_lower) THEN "paraphrase"
    ELSE "sentiment_analysis"

---------------------------------------------------------------------------
(* Query text extractor: A2ATextAnalysisAgent._extract_text_from_query *)

task_keywords ==
    << <<"g", "r", "a", "m", "m", "a", "r", " ", "c", "h", "e", "c", "k">>,
       <<"c", "h", "e", "c", "k", " ", "g", "r", "a", "m", "m", "a", "r">>,
       <<"s", "u", "m", "m", "a", "r", "i", "z", "e">>,
       <<"s", "e", "n", "t", "i", "m", "e", "n", "t", " ",
         "a", "n", "a", "l", "y", "s", "i", "s">>,
       <<"a", "n", "a", "l", "y", "z", "e", " ",
         "s", "e", "n", "t", "i", "m", "e", "n", "t">>,
       <<"p", "a", "r", "a", "p", "h", "r", "a", "s", "e">>,
       <<"e", "x", "t", "r", "a", "c", "t", " ",
         "e", "n", "t", "i", "t", "i", "e", "s">> >>

\* the loop `for keyword in task_keywords: text = text.replace(keyword, '').strip()`
RECURSIVE extract_loop(_, _)
extract_loop(text, i) ==
    IF i > Len(task_keywords) THEN text
    ELSE extract_loop(strip(replace(text, task_keywords[i])), i + 1)

\* an extractor that lower-cases the query before removing the phrases
extract_text_from_query_lowered(q) == extract_loop(lower(q), 1)

extract_text_from_query(q) == extract_loop(q, 1)

---------------------------------------------------------------------------
(* Requests, tasks and events *)

\* the coroutine slots: at most two calls of execute are in flight at once,
\* which gives every interleaving of a pair of calls at their awaits
Runs == {1, 2}

\* `None` for RequestContext.current_task and for the local `task`
NoTask == [id |-> 0, contextId |-> 0]

Str_hi == <<"h", "i">>

Str_summarize == <<"s", "u", "m", "m", "a", "r", "i", "z", "e">>

\* values context.get_user_input() returns in the executor's behaviours
UserInputs == { << >>, Str_hi, Str_summarize }

\* str(e) of the exceptions an analyzer raises
ErrorMessages == { "ValueError" }

\* str(e) of the exception a failing event queue raises
QueueError == "QueueError"

NoRequest == [query |-> << >>, current_task |-> NoTask, message |-> FALSE]

\* new_task(context.message): Task.create with a fresh id and context id
new_task(n) == [id |-> n, contextId |-> n + 1]

\* the Task object enqueued on creation; Task.state defaults to "pending"
TaskEvent(t) ==
    [type |-> "task", task_id |-> t.id, context_id |-> t.contextId,
     state |-> "pending", final |-> FALSE, text |-> << >>, name |-> ""]

\* an updater built with the context id and the task id the wrong way round
StatusEvent_swapped(t, state, text, final) ==
    [type |-> "task_update", task_id |-> t.contextId, context_id |-> t.id,
     state |-> state, final |-> final, text |-> text, name |-> ""]

\* the event TaskUpdater.update_status enqueues
StatusEvent(t, state, text, final) ==
    [type |-> "task_update", task_id |-> t.id, context_id |-> t.contextId,
     state |-> state, final |-> final, text |-> text, name |-> ""]

\* the event updater.add_artifact(parts, name=...) enqueues
ArtifactEvent(t, text, name) ==
    [type |-> "artifact", task_id |-> t.id, context_id |-> t.contextId,
     state |-> "", final |-> FALSE, text |-> text, name |-> name]

\* the event updater.complete() enqueues
CompletedEvent(t) == StatusEvent(t, "completed", << >>, TRUE)

get_processing_message == << "Processing text analysis request..." >>

NoTextMessage == << "No text provided for analysis." >>

\* a failure message that drops str(e)
ErrorText_generic(e) == << "Error processing request: ", "" >>

ErrorText(e) == << "Error processing request: ", e >>

\* the if/elif chain of execute: the analyzer bound to a task type
Analyzer(tt) ==
    CASE tt = "grammar_check" -> "check_grammar"
      [] tt = "summarize" -> "summarize_text"
      [] tt = "sentiment_analysis" -> "analyze_sentiment"
      [] tt = "entity_extraction" -> "extract_entities"
      [] tt = "paraphrase" -> "paraphrase_text"
      [] OTHER -> "unknown"

\* response_text: json.dumps(result, indent=2), or "Error: ..." when the
\* result has an "error" key (only the unknown-task-type result has one)
ResponseText(tt, text) ==
    IF Analyzer(tt) = "unknown"
    THEN << "Error: ", "Unknown task type: ", tt >>
    ELSE << "json", Analyzer(tt) >> \o text

\* a queue that puts the new event in front of the earlier ones
enqueue_event_prepending(r, ev) ==
    /\ sink' = << ev >> \o sink
    /\ emitted' = [emitted EXCEPT ![r] = Append(@, ev)]

\* EventQueue.enqueue_event on behalf of execute call r
enqueue_event(r, ev) ==
    /\ sink' = Append(sink, ev)
    /\ emitted' = [emitted EXCEPT ![r] = Append(@, ev)]

\* the coroutine of call r ends: by returning, or with an exception
Finish(r, how) ==
    /\ pc' = [pc EXCEPT ![r] = "done"]
    /\ outcome' = [outcome EXCEPT ![r] = how]

Log(r, names) == steps' = [steps EXCEPT ![r] = @ \o names]

---------------------------------------------------------------------------
(* A2ATextAnalysisAgent.execute, one action per stretch between awaits.    *)
(* The parameter f says whether the event queue raises on this append.     *)

\* lines 294-296: task = new_task(context.message); enqueue it
CreateTask_unannounced(r, f) ==
    /\ nextId' = nextId + 2
    /\ emitted' = [emitted EXCEPT ![r] = << >>]
    /\ tasks' = tasks \cup { new_task(nextId) }
    /\ task' = [task EXCEPT ![r] = new_task(nextId)]
    /\ pc' = [pc EXCEPT ![r] = "established"]
    /\ outcome' = [outcome EXCEPT ![r] = "running"]
    /\ UNCHANGED sink

CreateTask(r, f) ==
    /\ nextId' = nextId + 2
    /\ IF f
       THEN /\ Finish(r, "raised")
            /\ emitted' = [emitted EXCEPT ![r] = << >>]
            /\ task' = [task EXCEPT ![r] = NoTask]
            /\ UNCHANGED << sink, tasks >>
       ELSE /\ sink' = Append(sink, TaskEvent(new_task(nextId)))
            /\ emitted' = [emitted EXCEPT ![r] =
                             << TaskEvent(new_task(nextId)) >>]
            /\ tasks' = tasks \cup { new_task(nextId) }
            /\ task' = [task EXCEPT ![r] = new_task(nextId)]
            /\ pc' = [pc EXCEPT ![r] = "established"]
            /\ outcome' = [outcome EXCEPT ![r] = "running"]

\* lines 298-299: `if not task: return`
ReturnWithoutTask_failing(r) ==
    /\ sink' = Append(sink, StatusEvent(NoTask, "failed", << >>, TRUE))
    /\ emitted' = [emitted EXCEPT ![r] = << >>]
    /\ Finish(r, "returned")
    /\ task' = [task EXCEPT ![r] = NoTask]
    /\ UNCHANGED << tasks, nextId >>

ReturnWithoutTask(r) ==
    /\ Finish(r, "returned")
    /\ task' = [task EXCEPT ![r] = NoTask]
    /\ emitted' = [emitted EXCEPT ![r] = << >>]
    /\ UNCHANGED << sink, tasks, nextId >>

\* line 290 with an existing task: task = context.current_task
UseCurrentTask(r, cur) ==
    /\ task' = [task EXCEPT ![r] = cur]
    /\ pc' = [pc EXCEPT ![r] = "established"]
    /\ outcome' = [outcome EXCEPT ![r] = "running"]
    /\ emitted' = [emitted EXCEPT ![r] = << >>]
    /\ UNCHANGED << sink, tasks, nextId >>

\* lines 289-299: a new call of execute reads the request and establishes
\* its task.  A request that references a task carries the message that
\* named it.  The call takes the first free coroutine slot.
Begin(r, q, cur, msg, f) ==
    /\ pc[r] \in {"idle", "done"}
    /\ \A s \in Runs : s < r => pc[s] \notin {"idle", "done"}
    /\ calls < MaxCalls
    /\ calls' = calls + 1
    /\ cur # NoTask => msg
    /\ request' = [request EXCEPT ![r] =
                     [query |-> q, current_task |-> cur, message |-> msg]]
    /\ task_type' = [task_type EXCEPT ![r] = ""]
    /\ text_to_analyze' = [text_to_analyze EXCEPT ![r] = << >>]
    /\ steps' = [steps EXCEPT ![r] = << >>]
    /\ caught' = [caught EXCEPT ![r] = ""]
    /\ IF cur = NoTask /\ msg THEN CreateTask(r, f)
       ELSE IF cur = NoTask THEN ReturnWithoutTask(r)
       ELSE UseCurrentTask(r, cur)
    /\ UNCHANGED << cancelCalls, cancelOutcome, pureVars >>

\* an empty-input branch that reports "working" before it fails
EmptyInput_afterWorking(r, f) ==
    /\ pc[r] = "established"
    /\ request[r].query = << >>
    /\ sink' = sink \o << StatusEvent(task[r], "working",
                                      get_processing_message, FALSE),
                          StatusEvent(task[r], "failed", NoTextMessage, TRUE) >>
    /\ emitted' = [emitted EXCEPT ![r] =
          @ \o << StatusEvent(task[r], "working",
                              get_processing_message, FALSE),
                  StatusEvent(task[r], "failed", NoTextMessage, TRUE) >>]
    /\ Finish(r, "returned")
    /\ UNCHANGED << tasks, nextId, calls, request, task, task_type,
                    text_to_analyze, steps, caught, cancelCalls,
                    cancelOutcome, pureVars >>

\* lines 301-309: empty user input
EmptyInput(r, f) ==
    /\ pc[r] = "established"
    /\ request[r].query = << >>
    /\ IF f
       THEN /\ Finish(r, "raised")
            /\ UNCHANGED << sink, emitted >>
       ELSE /\ enqueue_event(r, StatusEvent(task[r], "failed",
                                            NoTextMessage, TRUE))
            /\ Finish(r, "returned")
    /\ UNCHANGED << tasks, nextId, calls, request, task, task_type, text_to_analyze,
                    steps, caught, cancelCalls, cancelOutcome, pureVars >>

\* a body that passes the extracted text on without the fallback
StartWork_nofallback(r, f) ==
    /\ pc[r] = "established"
    /\ request[r].query # << >>
    /\ task_type' = [task_type EXCEPT ![r] =
                       determine_task_type(request[r].query)]
    /\ text_to_analyze' = [text_to_analyze EXCEPT ![r] =
                             extract_text_from_query(request[r].query)]
    /\ Log(r, << "classify", "extract", "update_status" >>)
    /\ enqueue_event(r, StatusEvent(task[r], "working",
                                    get_processing_message, FALSE))
    /\ pc' = [pc EXCEPT ![r] = "working"]
    /\ UNCHANGED << outcome, tasks, nextId, calls, request, task, caught,
                    cancelCalls, cancelOutcome, pureVars >>

\* a body that keeps the task type on the agent, which all calls share
StartWork_shared(r, f) ==
    /\ pc[r] = "established"
    /\ request[r].query # << >>
    /\ task_type' = [s \in Runs |-> determine_task_type(request[r].query)]
    /\ text_to_analyze' = [text_to_analyze EXCEPT ![r] =
          IF extract_text_from_query(request[r].query) = << >>
          THEN request[r].query
          ELSE extract_text_from_query(request[r].query)]
    /\ Log(r, << "classify", "extract", "update_status" >>)
    /\ enqueue_event(r, StatusEvent(task[r], "working",
                                    get_processing_message, FALSE))
    /\ pc' = [pc EXCEPT ![r] = "working"]
    /\ UNCHANGED << outcome, tasks, nextId, calls, request, task, caught,
                    cancelCalls, cancelOutcome, pureVars >>

\* a body whose processing message quotes the query
StartWork_echo(r, f) ==
    /\ pc[r] = "established"
    /\ request[r].query # << >>
    /\ task_type' = [task_type EXCEPT ![r] =
                       determine_task_type(request[r].query)]
    /\ text_to_analyze' = [text_to_analyze EXCEPT ![r] =
          IF extract_text_from_query(request[r].query) = << >>
          THEN request[r].query
          ELSE extract_text_from_query(request[r].query)]
    /\ Log(r, << "classify", "extract", "update_status" >>)
    /\ enqueue_event(r, StatusEvent(task[r], "working",
                                    << "Processing: " >> \o request[r].query,
                                    FALSE))
    /\ pc' = [pc EXCEPT ![r] = "working"]
    /\ UNCHANGED << outcome, tasks, nextId, calls, request, task, caught,
                    cancelCalls, cancelOutcome, pureVars >>

\* a body that goes on to the analyzer without reporting "working"
StartWork_silent(r, f) ==
    /\ pc[r] = "established"
    /\ request[r].query # << >>
    /\ task_type' = [task_type EXCEPT ![r] =
                       determine_task_type(request[r].query)]
    /\ text_to_analyze' = [text_to_analyze EXCEPT ![r] =
          IF extract_text_from_query(request[r].query) = << >>
          THEN request[r].query
          ELSE extract_text_from_query(request[r].query)]
    /\ Log(r, << "classify", "extract" >>)
    /\ pc' = [pc EXCEPT ![r] = "working"]
    /\ UNCHANGED << sink, emitted, outcome, tasks, nextId, calls, request,
                    task, caught, cancelCalls, cancelOutcome, pureVars >>

\* lines 311-323: classify, extract, fall back, report "working"
StartWork(r, f) ==
    /\ pc[r] = "established"
    /\ request[r].query # << >>
    /\ task_type' = [task_type EXCEPT ![r] =
                       determine_task_type(request[r].query)]
    /\ text_to_analyze' = [text_to_analyze EXCEPT ![r] =
          IF extract_text_from_query(request[r].query) = << >>
          THEN request[r].query
          ELSE extract_text_from_query(request[r].query)]
    /\ Log(r, << "classify", "extract", "update_status" >>)
    /\ IF f
       THEN /\ Finish(r, "raised")
            /\ UNCHANGED << sink, emitted >>
       ELSE /\ enqueue_event(r, StatusEvent(task[r], "working",
                                            get_processing_message, FALSE))
            /\ pc' = [pc EXCEPT ![r] = "working"]
            /\ UNCHANGED outcome
    /\ UNCHANGED << tasks, nextId, calls, request, task, caught,
                    cancelCalls, cancelOutcome, pureVars >>

\* a body that starts the analyzer and adds the artifact without waiting
\* for the analyzer to finish
AnalyzeOk_detached(r, f) ==
    /\ pc[r] = "working"
    /\ Log(r, << Analyzer(task_type[r]) >>)
    /\ enqueue_event(r, ArtifactEvent(task[r],
           ResponseText(task_type[r], text_to_analyze[r]),
           "analysis_result"))
    /\ pc' = [pc EXCEPT ![r] = "artifact_added"]
    /\ UNCHANGED << caught, tasks, nextId, calls, request, task, task_type,
                    text_to_analyze, outcome, cancelCalls, cancelOutcome,
                    pureVars >>

\* lines 326-349: the analyzer is called and returns; serialize the result
\* and add the artifact
AnalyzeOk(r, f) ==
    /\ pc[r] = "working"
    /\ Log(r, << Analyzer(task_type[r]), "returned" >>)
    /\ IF f
       THEN /\ caught' = [caught EXCEPT ![r] = QueueError]
            /\ pc' = [pc EXCEPT ![r] = "except"]
            /\ UNCHANGED << sink, emitted >>
       ELSE /\ enqueue_event(r, ArtifactEvent(task[r],
                   ResponseText(task_type[r], text_to_analyze[r]),
                   "analysis_result"))
            /\ pc' = [pc EXCEPT ![r] = "artifact_added"]
            /\ UNCHANGED caught
    /\ UNCHANGED << tasks, nextId, calls, request, task, task_type, text_to_analyze,
                    outcome, cancelCalls, cancelOutcome, pureVars >>

\* lines 326-338, 352: the analyzer raises e
AnalyzeRaise(r, e) ==
    /\ pc[r] = "working"
    /\ Log(r, << Analyzer(task_type[r]), "raised" >>)
    /\ caught' = [caught EXCEPT ![r] = e]
    /\ pc' = [pc EXCEPT ![r] = "except"]
    /\ UNCHANGED << sink, emitted, tasks, nextId, calls, request, task, task_type,
                    text_to_analyze, outcome, cancelCalls, cancelOutcome,
                    pureVars >>

\* an execute that forgets `await updater.complete()`
Complete_missing(r, f) ==
    /\ pc[r] = "artifact_added"
    /\ Finish(r, "returned")
    /\ UNCHANGED << sink, emitted, tasks, nextId, calls, request, task,
                    task_type, text_to_analyze, steps, caught, cancelCalls,
                    cancelOutcome, pureVars >>

\* line 350: updater.complete()
Complete(r, f) ==
    /\ pc[r] = "artifact_added"
    /\ IF f
       THEN /\ caught' = [caught EXCEPT ![r] = QueueError]
            /\ pc' = [pc EXCEPT ![r] = "except"]
            /\ UNCHANGED << sink, emitted, outcome >>
       ELSE /\ enqueue_event(r, CompletedEvent(task[r]))
            /\ Finish(r, "returned")
            /\ UNCHANGED caught
    /\ UNCHANGED << tasks, nextId, calls, request, task, task_type, text_to_analyze,
                    steps, cancelCalls, cancelOutcome, pureVars >>

\* an except clause that swallows the exception
HandleException_silent(r, f) ==
    /\ pc[r] = "except"
    /\ Finish(r, "returned")
    /\ UNCHANGED << sink, emitted, tasks, nextId, calls, request, task,
                    task_type, text_to_analyze, steps, caught, cancelCalls,
                    cancelOutcome, pureVars >>

\* lines 352-357: except Exception as e
HandleException(r, f) ==
    /\ pc[r] = "except"
    /\ IF f
       THEN /\ Finish(r, "raised")
            /\ UNCHANGED << sink, emitted >>
       ELSE /\ enqueue_event(r, StatusEvent(task[r], "failed",
                                            ErrorText(caught[r]), TRUE))
            /\ Finish(r, "returned")
    /\ UNCHANGED << tasks, nextId, calls, request, task, task_type, text_to_analyze,
                    steps, caught, cancelCalls, cancelOutcome, pureVars >>

---------------------------------------------------------------------------
(* A2ATextAnalysisAgent.cancel *)

\* a cancel that accepts the request and reports the task canceled
cancel_accepting(t) ==
    /\ cancelCalls < MaxCancels
    /\ cancelCalls' = cancelCalls + 1
    /\ cancelOutcome' = "returned"
    /\ sink' = Append(sink, StatusEvent(t, "canceled", << >>, TRUE))
    /\ UNCHANGED << tasks, nextId, calls, pc, request, task, task_type,
                    text_to_analyze, outcome, emitted, steps, caught,
                    pureVars >>

\* lines 359-363: raise ServerError(error=UnsupportedOperationError())
cancel(t) ==
    /\ cancelCalls < MaxCancels
    /\ cancelCalls' = cancelCalls + 1
    /\ cancelOutcome' = "UnsupportedOperationError"
    /\ UNCHANGED << sink, tasks, nextId, calls, pc, request, task, task_type,
                    text_to_analyze, outcome, emitted, steps, caught,
                    pureVars >>

---------------------------------------------------------------------------
(* The executor: execute calls interleaving at their awaits, and cancel    *)

InitExec ==
    /\ sink = << >>
    /\ tasks = {}
    /\ nextId = 1
    /\ calls = 0
    /\ pc = [r \in Runs |-> "idle"]
    /\ request = [r \in Runs |-> NoRequest]
    /\ task = [r \in Runs |-> NoTask]
    /\ task_type = [r \in Runs |-> ""]
    /\ text_to_analyze = [r \in Runs |-> << >>]
    /\ outcome = [r \in Runs |-> "running"]
    /\ emitted = [r \in Runs |-> << >>]
    /\ steps = [r \in Runs |-> << >>]
    /\ caught = [r \in Runs |-> ""]
    /\ cancelCalls = 0
    /\ cancelOutcome = "none"

InitPure ==
    /\ query = << >>
    /\ phase = "input"
    /\ intent = ""
    /\ extractions = << >>

Init == InitExec /\ InitPure

\* one step of execute call r; fs are the ways the event queue may behave
RunStep(r, fs) ==
    \/ \E q \in UserInputs, cur \in {NoTask} \cup tasks,
          msg \in BOOLEAN, f \in fs : Begin(r, q, cur, msg, f)
    \/ \E f \in fs : EmptyInput(r, f)
    \/ \E f \in fs : StartWork(r, f)
    \/ \E f \in fs : AnalyzeOk(r, f)
    \/ \E e \in ErrorMessages : AnalyzeRaise(r, e)
    \/ \E f \in fs : Complete(r, f)
    \/ \E f \in fs : HandleException(r, f)

CancelStep == \E t \in {NoTask} \cup tasks : cancel(t)

\* the event queue of protocol/a2a_types.py: append never raises
Next == (\E r \in Runs : RunStep(r, {FALSE})) \/ CancelStep

Spec == Init /\ [][Next]_vars

\* the calls of execute alone
NextExecute == \E r \in Runs : RunStep(r, {FALSE})

\* the steps at which the event loop resumes coroutine r after an await
Resume(r) ==
    \/ EmptyInput(r, FALSE)
    \/ AnalyzeOk(r, FALSE)
    \/ \E e \in ErrorMessages : AnalyzeRaise(r, e)
    \/ Complete(r, FALSE)
    \/ HandleException(r, FALSE)

\* the event loop resumes every coroutine whose await has completed, and an
\* analyzer always returns or raises (StartWork is enabled exactly when the
\* coroutine is established with a non-empty query)
FairSpec ==
    /\ Init /\ [][NextExecute]_vars
    /\ \A r \in Runs : WF_vars(Resume(r))
    /\ \A r \in Runs :
          \/ []<>(~(pc[r] = "established" /\ request[r].query # << >>))
          \/ []<><<StartWork(r, FALSE)>>_vars

\* an event queue whose append may raise
NextFaulty == (\E r \in Runs : RunStep(r, BOOLEAN)) \/ CancelStep

SpecFaulty == Init /\ [][NextFaulty]_vars

\* queries that between them reach every branch of the dispatch: one per
\* keyword set, and one without a keyword
DispatchInputs ==
    { <<"g", "r", "a", "m", "m", "a", "r">>,
      Str_summarize,
      <<"m", "o", "o", "d">>,
      <<"e", "n", "t", "i", "t", "y">>,
      <<"r", "e", "w", "r", "i", "t", "e">>,
      Str_hi }

\* calls of execute one after the other, each originating its task, on
\* the queries of DispatchInputs
NextDispatch ==
    \/ \E q \in DispatchInputs : Begin(1, q, NoTask, TRUE, FALSE)
    \/ StartWork(1, FALSE)
    \/ AnalyzeOk(1, FALSE)
    \/ \E e \in ErrorMessages : AnalyzeRaise(1, e)
    \/ Complete(1, FALSE)
    \/ HandleException(1, FALSE)

SpecDispatch == Init /\ [][NextDispatch]_vars

---------------------------------------------------------------------------
(* The classifier applied to one query *)

Pieces ==
    { <<"g", "r", "a", "m", "m", "a", "r">>,
      <<"G", "r", "a", "m", "m", "a", "r">>,
      <<"G", "R", "A", "M", "M", "A", "R">>,
      <<"c", "h", "e", "c", "k", " ">>,
      <<" ", "c", "h", "e", "c", "k">>,
      <<"g", "r", "a", "m", "m", "a", "t", "i", "c", "a", "l">>,
      <<"s", "u", "m", "m", "a", "r", "i", "z", "e">>,
      <<"S", "u", "m", "m", "a", "r", "i", "z", "e">>,
      <<"s", "u", "m", "m", "a", "r", "y">>,
      <<"s", "u", "m", "m", "a", "r", "i", "z", "a", "t", "i", "o", "n">>,
      <<"s", "u", "m", "m", "a", "r">>,
      <<"i", "z", "e">>,
      <<"s", "e", "n", "t", "i", "m", "e", "n", "t">>,
      <<" ", "a", "n", "a", "l", "y", "s", "i", "s">>,
      <<"a", "n", "a", "l", "y", "z", "e", " ">>,
      <<"e", "m", "o", "t", "i", "o", "n">>,
      <<"f", "e", "e", "l", "i", "n", "g">>,
      <<"m", "o", "o", "d">>,
      <<"e", "n", "t", "i", "t", "y">>,
      <<"e", "n", "t", "i", "t", "i", "e", "s">>,
      <<"e", "x", "t", "r", "a", "c", "t">>,
      <<"E", "x", "t", "r", "a", "c", "t">>,
      <<"n", "a", "m", "e", "d">>,
      <<"p", "a", "r", "a", "p", "h", "r", "a", "s", "e">>,
      <<"P", "a", "r", "a", "p", "h", "r", "a", "s", "e">>,
      <<"r", "e", "w", "r", "i", "t", "e">>,
      <<"r", "e", "p", "h", "r", "a", "s", "e">>,
      <<" ">>,
      <<"h", "i">> }

\* the queries under test: up to n pieces, concatenated
RECURSIVE QueriesUpTo(_)
QueriesUpTo(n) ==
    IF n = 0 THEN { << >> }
    ELSE QueriesUpTo(n - 1) \cup
         { p \o x : p \in Pieces, x \in QueriesUpTo(n - 1) }

Queries == QueriesUpTo(MaxPieces)

InitClassifier ==
    /\ InitExec
    /\ query \in Queries
    /\ phase = "input"
    /\ intent = ""
    /\ extractions = << >>

\* task_type = self._determine_task_type(query)
Classify ==
    /\ phase = "input"
    /\ intent' = determine_task_type(query)
    /\ phase' = "classified"
    /\ UNCHANGED << query, extractions, execVars >>

NextClassifier == Classify

SpecClassifier == InitClassifier /\ [][NextClassifier]_vars

---------------------------------------------------------------------------
(* The extractor applied to one query, and again to its own output *)

Fragments ==
    { <<"s", "u", "m", "m", "a", "r", "i", "z", "e">>,
      <<"S", "u", "m", "m", "a", "r", "i", "z", "e">>,
      <<"s", "u", "m", "m", "a", "r">>,
      <<"i", "z", "e">>,
      <<"c", "h", "e", "c", "k", " ">>,
      <<"g", "r", "a", "m", "m", "a", "r">>,
      <<"p", "a", "r", "a", "p", "h", "r", "a", "s", "e">>,
      <<" ">>,
      <<"h", "i">>,
      <<"T", "h", "i", "s">> }

\* the queries to extract from: up to n fragments, concatenated
RECURSIVE TextsUpTo(_)
TextsUpTo(n) ==
    IF n = 0 THEN { << >> }
    ELSE TextsUpTo(n - 1) \cup
         { p \o x : p \in Fragments, x \in TextsUpTo(n - 1) }

Texts == TextsUpTo(MaxFragments)

InitExtractor ==
    /\ InitExec
    /\ query \in Texts
    /\ phase = "input"
    /\ intent = ""
    /\ extractions = << >>

\* text_to_analyze = self._extract_text_from_query(query)
Extract ==
    /\ phase = "input"
    /\ extractions' = << extract_text_from_query(query) >>
    /\ phase' = "extracted"
    /\ UNCHANGED << query, intent, execVars >>

\* self._extract_text_from_query applied to the text it returned
ExtractAgain ==
    /\ phase = "extracted"
    /\ extractions' = Append(extractions,
                             extract_text_from_query(extractions[1]))
    /\ phase' = "reextracted"
    /\ UNCHANGED << query, intent, execVars >>

NextExtractor == Extract \/ ExtractAgain

SpecExtractor == InitExtractor /\ [][NextExtractor]_vars

---------------------------------------------------------------------------
(* Observations on events *)

IsTerminal(ev) ==
    ev.type = "task_update" /\ ev.state \in {"completed", "failed"}

\* positions in evs of the terminal events of task t
TerminalsOf(evs, t) ==
    { i \in 1..Len(evs) : IsTerminal(evs[i]) /\ evs[i].task_id = t.id }

\* the events of a occur in b, in the order they have in a
RECURSIVE IsSubsequence(_, _)
IsSubsequence(a, b) ==
    IF a = << >> THEN TRUE
    ELSE IF b = << >> THEN FALSE
    ELSE IF Head(a) = Head(b) THEN IsSubsequence(Tail(a), Tail(b))
    ELSE IsSubsequence(a, Tail(b))

\* call r has appended a "working" status event for its task
EmittedWorking(r) ==
    \E i \in 1..Len(emitted[r]) :
        /\ emitted[r][i].type = "task_update"
        /\ emitted[r][i].state = "working"
        /\ emitted[r][i].task_id = task[r].id

---------------------------------------------------------------------------
(* C1: a call of execute that has emitted "working" for its task          *)
(* eventually returns having emitted exactly one terminal event for that  *)
(* task, and it is never finished after "working" without exactly one     *)
(* terminal event, whether the analyzer returned or raised.               *)
C1_WorkingLeadsToOneTerminal ==
    \A r \in Runs :
        /\ [](EmittedWorking(r) =>
                <>(/\ pc[r] = "done"
                   /\ outcome[r] = "returned"
                   /\ Cardinality(TerminalsOf(emitted[r], task[r])) = 1))
        /\ []((EmittedWorking(r) /\ pc[r] = "done") =>
                (/\ outcome[r] = "returned"
                 /\ Cardinality(TerminalsOf(emitted[r], task[r])) = 1))

\* two calls have finished after "working": one completed, one failed
C1_Witness ==
    \E r1, r2 \in Runs :
        /\ pc[r1] = "done" /\ EmittedWorking(r1) /\ caught[r1] = ""
        /\ Cardinality(TerminalsOf(emitted[r1], task[r1])) = 1
        /\ pc[r2] = "done" /\ EmittedWorking(r2) /\ caught[r2] # ""
        /\ Cardinality(TerminalsOf(emitted[r2], task[r2])) = 1

\* the events call r appended after its task was established
AfterEstablishment(r) ==
    IF emitted[r] # << >> /\ emitted[r][1].type = "task"
    THEN Tail(emitted[r])
    ELSE emitted[r]

\* the state the sink reports last for task t
TaskState(t) ==
    LET idx == { i \in 1..Len(sink) :
                   /\ sink[i].task_id = t.id
                   /\ sink[i].type \in {"task", "task_update"} }
    IN IF idx = {} THEN "none"
       ELSE sink[CHOOSE i \in idx : \A j \in idx : j <= i].state

---------------------------------------------------------------------------
(* C2: no task receives two terminal events, and no event is appended for *)
(* a task after its terminal event.                                       *)
C2_OneTerminalPerTask ==
    \A t \in tasks :
        /\ Cardinality(TerminalsOf(sink, t)) <= 1
        /\ \A i \in TerminalsOf(sink, t) :
              \A j \in (i + 1)..Len(sink) : sink[j].task_id # t.id

---------------------------------------------------------------------------
(* C3: a finished call with non-empty input whose analyzer returned has   *)
(* appended, after establishing its task, exactly the working status, the *)
(* artifact "analysis_result" carrying the serialized result, and the     *)
(* terminal completed status, in that order.                              *)
C3_SuccessEventOrder ==
    \A r \in Runs :
        (/\ pc[r] = "done"
         /\ task[r] # NoTask
         /\ request[r].query # << >>
         /\ caught[r] = "")
        => /\ Len(steps[r]) = 5
           /\ AfterEstablishment(r) =
                << [type |-> "task_update", task_id |-> task[r].id,
                    context_id |-> task[r].contextId, state |-> "working",
                    final |-> FALSE,
                    text |-> << "Processing text analysis request..." >>,
                    name |-> ""],
                   [type |-> "artifact", task_id |-> task[r].id,
                    context_id |-> task[r].contextId, state |-> "",
                    final |-> FALSE,
                    text |-> << "json", steps[r][4] >> \o text_to_analyze[r],
                    name |-> "analysis_result"],
                   [type |-> "task_update", task_id |-> task[r].id,
                    context_id |-> task[r].contextId, state |-> "completed",
                    final |-> TRUE, text |-> << >>, name |-> ""] >>

\* a call with non-empty input has completed with its three events
C3_Witness ==
    \E r \in Runs :
        /\ pc[r] = "done"
        /\ request[r].query # << >>
        /\ caught[r] = ""
        /\ Len(AfterEstablishment(r)) = 3
        /\ AfterEstablishment(r)[3].state = "completed"

---------------------------------------------------------------------------
(* C4: a finished call with an established task and empty input has       *)
(* appended exactly one further event, the terminal failed status with    *)
(* the text "No text provided for analysis.", and has invoked neither the *)
(* classifier, the extractor nor an analyzer.                             *)
C4_EmptyInputFailsOnly ==
    \A r \in Runs :
        (/\ pc[r] = "done"
         /\ task[r] # NoTask
         /\ request[r].query = << >>)
        => /\ AfterEstablishment(r) =
                << [type |-> "task_update", task_id |-> task[r].id,
                    context_id |-> task[r].contextId, state |-> "failed",
                    final |-> TRUE,
                    text |-> << "No text provided for analysis." >>,
                    name |-> ""] >>
           /\ steps[r] = << >>
           /\ task_type[r] = ""
           /\ outcome[r] = "returned"

\* an empty-input call has finished on a task it created
C4_Witness ==
    \E r \in Runs :
        /\ pc[r] = "done"
        /\ task[r] # NoTask
        /\ request[r].query = << >>
        /\ Len(emitted[r]) = 2
        /\ emitted[r][2].state = "failed"

---------------------------------------------------------------------------
(* C5: a finished call whose analyzer raised has returned after appending *)
(* a terminal failed status carrying the error's message as its last      *)
(* event, and has appended no artifact; no call appends an artifact after *)
(* a failed status.                                                       *)
C5_AnalyzerFailure ==
    \A r \in Runs :
        /\ (pc[r] = "done" /\ caught[r] # "")
           => /\ outcome[r] = "returned"
              /\ emitted[r] # << >>
              /\ emitted[r][Len(emitted[r])] =
                   [type |-> "task_update", task_id |-> task[r].id,
                    context_id |-> task[r].contextId, state |-> "failed",
                    final |-> TRUE,
                    text |-> << "Error processing request: ", caught[r] >>,
                    name |-> ""]
              /\ \A i \in 1..Len(emitted[r]) : emitted[r][i].type # "artifact"
        /\ \A i, j \in 1..Len(emitted[r]) :
              (i < j /\ emitted[r][i].state = "failed")
              => emitted[r][j].type # "artifact"

\* a call has finished after its analyzer raised
C5_Witness ==
    \E r \in Runs :
        /\ pc[r] = "done"
        /\ caught[r] \in ErrorMessages
        /\ Len(steps[r]) = 5
        /\ emitted[r][Len(emitted[r])].state = "failed"

---------------------------------------------------------------------------
(* C6: a call of execute whose request has neither a current task nor a   *)
(* message returns at once, without raising and without appending any     *)
(* event to the sink, whatever the user input.                            *)
C6_NoTaskNoMessageIsNoop ==
    [][ \A r \in Runs :
          (/\ calls' = calls + 1
           /\ pc[r] \in {"idle", "done"}
           /\ \A s \in Runs : s < r => pc[s] \notin {"idle", "done"}
           /\ request'[r].current_task = NoTask
           /\ ~request'[r].message)
          => /\ sink' = sink
             /\ emitted'[r] = << >>
             /\ pc'[r] = "done"
             /\ outcome'[r] = "returned" ]_vars

\* a call without task and message, but with user input, has returned
C6_Witness ==
    \E r \in Runs :
        /\ pc[r] = "done"
        /\ request[r].current_task = NoTask
        /\ ~request[r].message
        /\ request[r].query # << >>
        /\ outcome[r] = "returned"
        /\ calls > 0

---------------------------------------------------------------------------
(* C7: a call whose request has a message and no current task creates a   *)
(* new task, and the task event is the first event appended for that task *)
(* in the call and in the sink, before every status and artifact event.   *)
C7_TaskCreatedFirst ==
    \A r \in Runs :
        (/\ request[r].message
         /\ request[r].current_task = NoTask)
        => /\ task[r] \in tasks
           /\ emitted[r] # << >>
           /\ emitted[r][1] =
                [type |-> "task", task_id |-> task[r].id,
                 context_id |-> task[r].contextId, state |-> "pending",
                 final |-> FALSE, text |-> << >>, name |-> ""]
           /\ \A i \in 2..Len(emitted[r]) :
                 emitted[r][i].type # "task" /\ emitted[r][i].task_id = task[r].id
           /\ \E i \in 1..Len(sink) :
                 /\ sink[i] = emitted[r][1]
                 /\ \A j \in 1..Len(sink) :
                       (j # i /\ sink[j].task_id = task[r].id)
                       => (j > i /\ sink[j].type # "task")

\* a call that created its task has failed on empty input
C7_Witness ==
    \E r \in Runs :
        /\ request[r].message
        /\ request[r].current_task = NoTask
        /\ request[r].query = << >>
        /\ pc[r] = "done"
        /\ Len(emitted[r]) = 2
        /\ emitted[r][1].type = "task"
        /\ emitted[r][2].state = "failed"

---------------------------------------------------------------------------
(* C8: every call of cancel raises the UnsupportedOperation error, and    *)
(* leaves the sink, every task's reported state and every running call of *)
(* execute as they were.                                                  *)
C8_CancelAlwaysUnsupported ==
    [][ cancelCalls' # cancelCalls
        => /\ cancelOutcome' = "UnsupportedOperationError"
           /\ sink' = sink
           /\ tasks' = tasks
           /\ \A t \in tasks : TaskState(t)' = TaskState(t)
           /\ pc' = pc
           /\ task' = task
           /\ outcome' = outcome
           /\ emitted' = emitted ]_vars

\* cancel has been called while a call of execute is working on a task
C8_Witness ==
    /\ cancelCalls > 0
    /\ cancelOutcome = "UnsupportedOperationError"
    /\ \E r \in Runs : pc[r] = "working" /\ TaskState(task[r]) = "working"

---------------------------------------------------------------------------
(* C9: no call of execute ends with an exception, whichever step fails.   *)
C9_NoExceptionEscapes ==
    \A r \in Runs : outcome[r] # "raised"

---------------------------------------------------------------------------
(* C10: _determine_task_type returns the intent of the first keyword set, *)
(* in the order grammar, summarization, sentiment, entity extraction,     *)
(* paraphrase, that has a keyword contained in the lower-cased query, and *)
(* sentiment_analysis when none has; a query with a grammar keyword and a *)
(* summarization keyword is classified grammar_check.                     *)
C10_FirstMatchWins ==
    phase = "classified" =>
        LET sets == << GrammarKeywords, SummaryKeywords, SentimentKeywords,
                       EntityKeywords, ParaphraseKeywords >>
            intents == << "grammar_check", "summarize", "sentiment_analysis",
                          "entity_extraction", "paraphrase" >>
            hit(i) == \E j \in 1..Len(sets[i]) :
                          Contains(lower(query), sets[i][j])
            hits == { i \in 1..5 : hit(i) }
        IN /\ hits = {} => intent = "sentiment_analysis"
           /\ hits # {} =>
                intent = intents[CHOOSE i \in hits : \A k \in hits : i <= k]
           /\ (hit(1) /\ hit(2)) => intent = "grammar_check"

\* a query with a grammar keyword and a summarization keyword was classified
C10_Witness ==
    /\ phase = "classified"
    /\ AnyIn(GrammarKeywords, lower(query))
    /\ AnyIn(SummaryKeywords, lower(query))
    /\ intent = "grammar_check"

---------------------------------------------------------------------------
(* C11: _determine_task_type returns, for every query including the empty *)
(* one, exactly one of grammar_check, summarize, sentiment_analysis,      *)
(* entity_extraction and paraphrase; the empty query and every query      *)
(* without a keyword resolve to the default sentiment_analysis.           *)
C11_TotalAndClosed ==
    phase = "classified" =>
        /\ intent \in { "grammar_check", "summarize", "sentiment_analysis",
                        "entity_extraction", "paraphrase" }
        /\ query = << >> => intent = "sentiment_analysis"

\* the empty query was classified, to the default
C11_Witness ==
    /\ phase = "classified"
    /\ query = << >>
    /\ intent = "sentiment_analysis"

---------------------------------------------------------------------------
(* C12: the intent returned for a query is the intent of the same query   *)
(* lower-cased: a capitalised or upper-case instruction classifies as its *)
(* lower-case form does.                                                  *)
C12_CaseIndependent ==
    phase = "classified" => intent = determine_task_type(lower(query))

\* a query with capital letters was classified by a keyword that matches
\* only after lower-casing
C12_Witness ==
    /\ phase = "classified"
    /\ query # lower(query)
    /\ intent = "grammar_check"
    /\ ~AnyIn(GrammarKeywords, query)

---------------------------------------------------------------------------
(* C13: the text _extract_text_from_query returns contains no instruction *)
(* phrase in any letter case.                                             *)
C13_NoPhraseInAnyCase ==
    phase \in {"extracted", "reextracted"} =>
        \A k \in 1..Len(task_keywords) :
            ~Contains(lower(extractions[1]), task_keywords[k])

---------------------------------------------------------------------------
(* C14: extracting from the output of an extraction returns that output   *)
(* unchanged.                                                             *)
C14_ExtractionIdempotent ==
    phase = "reextracted" => extractions[2] = extractions[1]

---------------------------------------------------------------------------
(* C15: a call that has invoked its analyzer had a non-empty query and    *)
(* passed a non-empty payload: the original query when the extraction of  *)
(* the query is empty, the extraction otherwise.                          *)
C15_PayloadNeverEmpty ==
    \A r \in Runs :
        (\E i \in 1..Len(steps[r]) :
            steps[r][i] \in { "check_grammar", "summarize_text",
                              "analyze_sentiment", "extract_entities",
                              "paraphrase_text" })
        => /\ request[r].query # << >>
           /\ text_to_analyze[r] # << >>
           /\ extract_text_from_query(request[r].query) = << >>
                => text_to_analyze[r] = request[r].query
           /\ extract_text_from_query(request[r].query) # << >>
                => text_to_analyze[r] =
                     extract_text_from_query(request[r].query)

\* an analyzer was invoked on a query whose extraction is empty
C15_Witness ==
    \E r \in Runs :
        /\ Len(steps[r]) = 5
        /\ extract_text_from_query(request[r].query) = << >>
        /\ text_to_analyze[r] = request[r].query
        /\ text_to_analyze[r] # << >>

---------------------------------------------------------------------------
---------------------------------------------------------------------------
(* C17: every step leaves the sink as it was or adds exactly one event at *)
(* its end, the earlier events and their order unchanged; the event added *)
(* is the one the stepping call of execute has just emitted, so the       *)
(* events of a call are in the sink in the order the call emitted them.   *)
C17_SinkAppendOnly ==
    [][/\ Len(sink') \in { Len(sink), Len(sink) + 1 }
       /\ SubSeq(sink', 1, Len(sink)) = sink
       /\ \A r \in Runs :
            (emitted'[r] # emitted[r] /\ emitted'[r] # << >>)
            => /\ Len(sink') = Len(sink) + 1
               /\ sink'[Len(sink')] = emitted'[r][Len(emitted'[r])]
       /\ \A r \in Runs : IsSubsequence(emitted'[r], sink')]_vars

\* a call has emitted its four events while another call's events went
\* into the sink between them
C17_Witness ==
    \E r \in Runs :
        /\ Len(emitted[r]) = 4
        /\ \E i, j, k \in 1..Len(sink) :
              /\ i < j /\ j < k
              /\ sink[i] = emitted[r][1]
              /\ sink[j].task_id # task[r].id
              /\ sink[k] = emitted[r][4]

---------------------------------------------------------------------------
(* C18: when every call of execute so far originated its own task, the    *)
(* events of a call's task in the shared sink are the events that call    *)
(* emitted, in order; a finished call's events are those of the call      *)
(* running alone on its input (task, then failed for an empty input, or   *)
(* working, artifact, completed, or working, failed), with exactly one    *)
(* terminal event; and its task type, payload and serialized result are   *)
(* determined by its own query.                                           *)
C18_InterleavedRunsIndependent ==
    (nextId = 1 + 2 * calls) =>
    \A r \in Runs :
        task[r] # NoTask =>
        LET q == request[r].query
            OfMyTask(e) == e.task_id = task[r].id
            mine == SelectSeq(sink, OfMyTask)
            ev(type, state, final, text, name) ==
                [type |-> type, task_id |-> task[r].id,
                 context_id |-> task[r].contextId, state |-> state,
                 final |-> final, text |-> text, name |-> name]
            payload == IF extract_text_from_query(q) = << >> THEN q
                       ELSE extract_text_from_query(q)
            created == ev("task", "pending", FALSE, << >>, "")
            working == ev("task_update", "working", FALSE,
                          << "Processing text analysis request..." >>, "")
            artifact == ev("artifact", "", FALSE,
                           << "json", Analyzer(determine_task_type(q)) >>
                               \o payload,
                           "analysis_result")
            alone ==
                IF q = << >>
                THEN << created,
                        ev("task_update", "failed", TRUE,
                           << "No text provided for analysis." >>, "") >>
                ELSE IF caught[r] = ""
                THEN << created, working, artifact,
                        ev("task_update", "completed", TRUE, << >>, "") >>
                ELSE << created, working,
                        ev("task_update", "failed", TRUE,
                           << "Error processing request: ", caught[r] >>,
                           "") >>
        IN /\ mine = emitted[r]
           /\ Len(mine) <= Len(alone)
           /\ \A i \in 1..Len(mine) : i <= Len(alone) => mine[i] = alone[i]
           /\ pc[r] = "done" =>
                /\ mine = alone
                /\ Cardinality({ i \in 1..Len(mine) :
                       mine[i].state \in {"completed", "failed"} }) = 1
           /\ task_type[r] # "" =>
                /\ task_type[r] = determine_task_type(q)
                /\ text_to_analyze[r] = payload

\* two calls with different inputs have finished on tasks of their own,
\* their events interleaved in the sink
C18_Witness ==
    /\ nextId = 1 + 2 * calls
    /\ \A r \in Runs : pc[r] = "done" /\ task[r] # NoTask
    /\ request[1].query = Str_hi
    /\ request[2].query = Str_summarize
    /\ \E i, j, k \in 1..Len(sink) :
          /\ i < j /\ j < k
          /\ sink[i].task_id = task[1].id
          /\ sink[j].task_id = task[2].id
          /\ sink[k].task_id = task[1].id

---------------------------------------------------------------------------
(* C19 as stated: in the events of one call of execute, a terminal state  *)
(* is reported only after a working state, and nothing is reported after  *)
(* a terminal state.                                                      *)
C19_TerminalOnlyAfterWorking ==
    \A r \in Runs :
        \A i \in 1..Len(emitted[r]) :
            emitted[r][i].state \in {"completed", "failed"}
            => /\ \E j \in 1..(i - 1) : emitted[r][j].state = "working"
               /\ i = Len(emitted[r])

(* C19 as amended: the states one call of execute reports only advance,   *)
(* pending, then working, then completed or failed, and nothing follows a *)
(* terminal state; completed is reported only after working; failed is    *)
(* reported after working when the input is not empty, and without any    *)
(* working state when the input is empty.                                 *)
C19_StatesAdvance ==
    \A r \in Runs :
        LET rank(e) == CASE e.state = "pending" -> 0
                         [] e.state = "working" -> 1
                         [] e.state \in {"completed", "failed"} -> 3
                         [] OTHER -> 2
            reportedWorking(i) ==
                \E j \in 1..(i - 1) : emitted[r][j].state = "working"
        IN /\ \A i, j \in 1..Len(emitted[r]) :
                i < j => /\ rank(emitted[r][i]) < rank(emitted[r][j])
                         /\ rank(emitted[r][i]) # 3
           /\ \A i \in 1..Len(emitted[r]) :
                /\ emitted[r][i].state = "completed" => reportedWorking(i)
                /\ emitted[r][i].state = "failed" =>
                     (reportedWorking(i) <=> request[r].query # << >>)

\* one call has failed on an empty input without reporting working, and
\* another has completed after reporting working
C19_Witness ==
    \E r, s \in Runs :
        /\ pc[r] = "done" /\ pc[s] = "done"
        /\ request[r].query = << >>
        /\ Len(emitted[r]) = 2
        /\ emitted[r][1].state = "pending"
        /\ emitted[r][2].state = "failed"
        /\ Len(emitted[s]) = 4
        /\ emitted[s][2].state = "working"
        /\ emitted[s][4].state = "completed"

---------------------------------------------------------------------------
(* C20: in the calls one execution of execute makes, the report of the    *)
(* working status comes before the classifier and the extractor, and the  *)
(* classifier and the extractor come before the analyzer.                 *)
C20_WorkingBeforeClassification ==
    \A r \in Runs :
        \A i \in 1..Len(steps[r]) :
            /\ steps[r][i] \in {"classify", "extract"} =>
                 \E j \in 1..(i - 1) : steps[r][j] = "update_status"
            /\ steps[r][i] \in { "check_grammar", "summarize_text",
                                 "analyze_sentiment", "extract_entities",
                                 "paraphrase_text" } =>
                 /\ \E j \in 1..(i - 1) : steps[r][j] = "classify"
                 /\ \E j \in 1..(i - 1) : steps[r][j] = "extract"

---------------------------------------------------------------------------
(* C21: a call of execute that has invoked an analyzer emits an artifact  *)
(* or a terminal event only after that invocation has returned or raised, *)
(* and has no analyzer invocation unfinished once it has emitted a        *)
(* terminal event or has ended; an artifact or a terminal event after     *)
(* "working" is emitted only when an analyzer was invoked.                *)
C21_AnalyzerRunToCompletion ==
    \A r \in Runs :
        LET analyzers == { "check_grammar", "summarize_text",
                           "analyze_sentiment", "extract_entities",
                           "paraphrase_text" }
            invoked == { i \in 1..Len(steps[r]) : steps[r][i] \in analyzers }
            finished(i) == /\ i < Len(steps[r])
                           /\ steps[r][i + 1] \in {"returned", "raised"}
            results == { i \in 1..Len(emitted[r]) :
                           \/ emitted[r][i].type = "artifact"
                           \/ emitted[r][i].state \in {"completed", "failed"} }
        IN /\ (results # {} \/ pc[r] = "done") =>
                \A i \in invoked : finished(i)
           /\ (results # {} /\ request[r].query # << >>) =>
                /\ Cardinality(invoked) = 1
                /\ \A i \in results :
                      emitted[r][i].type = "artifact" =>
                          \E j \in invoked : steps[r][j + 1] = "returned"

\* a call has added its artifact after its analyzer returned
C21_Witness ==
    \E r \in Runs :
        /\ pc[r] = "artifact_added"
        /\ Len(steps[r]) = 5
        /\ steps[r][5] = "returned"
        /\ emitted[r][Len(emitted[r])].type = "artifact"

---------------------------------------------------------------------------
(* C22: in the sink, every completed or failed status event has its       *)
(* terminal flag set, the task event, the working status event and the    *)
(* artifact event have it clear, and no event of a task follows an event  *)
(* of that task whose terminal flag is set.                               *)
C22_FinalOnlyOnLastEvent ==
    \A i \in 1..Len(sink) :
        /\ sink[i].state \in {"completed", "failed"} => sink[i].final
        /\ (sink[i].type \in {"task", "artifact"} \/ sink[i].state = "working")
              => ~sink[i].final
        /\ sink[i].final =>
              \A j \in (i + 1)..Len(sink) : sink[j].task_id # sink[i].task_id

---------------------------------------------------------------------------
(* C23: every event a call of execute has appended carries the task id    *)
(* and the context id of the task the call established, which is the task *)
(* its request references or else the task it created, and the call keeps *)
(* that task until it ends.                                               *)
C23_SameTaskAndContext ==
    \A r \in Runs :
        /\ \A i \in 1..Len(emitted[r]) :
              /\ emitted[r][i].task_id = task[r].id
              /\ emitted[r][i].context_id = task[r].contextId
        /\ task[r] # NoTask =>
              /\ task[r].contextId = task[r].id + 1
              /\ request[r].current_task # NoTask =>
                    task[r] = request[r].current_task
              /\ request[r].current_task = NoTask =>
                    /\ emitted[r] # << >>
                    /\ emitted[r][1].type = "task"
                    /\ \A i \in 1..Len(sink) :
                          (sink[i].type = "task" /\ sink[i].task_id = task[r].id)
                          => sink[i] = emitted[r][1]

\* one call has finished its three status and artifact events on the task
\* it created, and another has reported on the existing task its request
\* references
C23_Witness ==
    \E r, s \in Runs :
        /\ request[r].current_task = NoTask
        /\ Len(emitted[r]) = 4
        /\ request[s].current_task # NoTask
        /\ Len(emitted[s]) >= 2
        /\ emitted[s][2].task_id = request[s].current_task.id

---------------------------------------------------------------------------
(* C24: all working status events in the sink, whichever call emitted     *)
(* them and whatever its query and task type, carry the same non-empty    *)
(* message text, "Processing text analysis request...".                   *)
C24_FixedProcessingMessage ==
    \A i \in 1..Len(sink) :
        sink[i].state = "working" =>
            /\ sink[i].text = << "Processing text analysis request..." >>
            /\ sink[i].text[1] # ""
            /\ \A j \in 1..Len(sink) :
                  sink[j].state = "working" => sink[j].text = sink[i].text

\* two calls with different queries and task types have each reported
\* working
C24_Witness ==
    \E r, s \in Runs :
        /\ request[r].query = Str_hi
        /\ request[s].query = Str_summarize
        /\ task_type[r] = "sentiment_analysis"
        /\ task_type[s] = "summarize"
        /\ EmittedWorking(r)
        /\ EmittedWorking(s)

---------------------------------------------------------------------------
(* C25: the task type a call dispatches on is one of the five the         *)
(* dispatch has a branch for, so the unknown-task-type branch is never    *)
(* taken: every artifact in the sink is the serialized result of an       *)
(* analyzer and never an "Error: ..." text, and the artifact of a call is *)
(* the result of the analyzer bound to the intent of the call's query.    *)
C25_DispatchExhaustive ==
    LET bound == [ grammar_check |-> "check_grammar",
                   summarize |-> "summarize_text",
                   sentiment_analysis |-> "analyze_sentiment",
                   entity_extraction |-> "extract_entities",
                   paraphrase |-> "paraphrase_text" ]
    IN /\ \A i \in 1..Len(sink) :
             sink[i].type = "artifact" =>
                 /\ sink[i].text[1] = "json"
                 /\ sink[i].text[1] # "Error: "
                 /\ \E tt \in DOMAIN bound : sink[i].text[2] = bound[tt]
       /\ \A r \in Runs :
             /\ task_type[r] # "" => task_type[r] \in DOMAIN bound
             /\ \A i \in 1..Len(steps[r]) : steps[r][i] # "unknown"
             /\ \A i \in 1..Len(emitted[r]) :
                   emitted[r][i].type = "artifact" =>
                       /\ task_type[r] \in DOMAIN bound
                       /\ emitted[r][i].text =
                            << "json", bound[task_type[r]] >>
                                \o text_to_analyze[r]
                       /\ steps[r][4] = bound[task_type[r]]

\* two tasks have been completed, one with the artifact of the grammar
\* checker and one with the artifact of the paraphraser
C25_Witness ==
    /\ pc[1] = "done"
    /\ \E i, j \in 1..Len(sink) :
          /\ sink[i].type = "artifact" /\ sink[i].text[2] = "check_grammar"
          /\ sink[j].type = "artifact" /\ sink[j].text[2] = "paraphrase_text"
    /\ Cardinality({ i \in 1..Len(sink) : sink[i].state = "completed" }) = 2

---------------------------------------------------------------------------
(* C26: a call whose request references an existing task appends no task  *)
(* event, and once the sink holds a terminal event of a task no working,  *)
(* artifact or terminal event of that task is appended after it.          *)
C26_FinishedTaskStaysFinished ==
    /\ \A r \in Runs :
          request[r].current_task # NoTask =>
              \A i \in 1..Len(emitted[r]) : emitted[r][i].type # "task"
    /\ \A i \in 1..Len(sink) :
          IsTerminal(sink[i]) =>
              \A j \in (i + 1)..Len(sink) :
                  sink[j].task_id = sink[i].task_id =>
                      /\ sink[j].type # "artifact"
                      /\ sink[j].state \notin {"working", "completed", "failed"}

=============================================================================
